---- MODULE Spec2Model ----
(***************************************************************************)
(* AWS Cost Calculator: the session-scoped cart (app.py), the CSV report   *)
(* (report_generator.py) and the static-table price resolver               *)
(* (bulk_pricing.py, aws_pricing.py).                                      *)
(*                                                                         *)
(* Money is kept in fixed point: one unit is 0.0001 USD, so the price      *)
(* 0.0116 is 116 and the monthly cost 8.468 is 84680.  A value rounded to  *)
(* two decimals is a multiple of 100 units.                                *)
(***************************************************************************)
EXTENDS Integers, Sequences, FiniteSets, TLC

\* ------------------------------------------------------------------ bounds
\* number of tokens uuid4 can draw before the model stops adding
MaxIds == 3

\* two browser sessions, each with its own session cookie
Sessions == {"s1", "s2"}
NoSession == "-"
Ids == 1..MaxIds
\* the id of test_invalid_cart_remove, which no add ever assigns
InvalidId == 0

\* ------------------------------------------------------- JSON value model
\* A JSON field of a request body: a number, a numeric string, a
\* non-numeric string, null, or a key that is absent from the body.
Num(n) == [t |-> "num", v |-> n]
NumStr(n) == [t |-> "numstr", v |-> n]
BadStr == [t |-> "str", v |-> 0]
Null == [t |-> "null", v |-> 0]
Absent == [t |-> "absent", v |-> 0]

\* Python None as the value of a text field
None == "<None>"

\* data.get(key, default): the default replaces only an absent key
get(field, default) == IF field.t = "absent" THEN Num(default) ELSE field

\* float(x): a number or a numeric string converts, any other string raises
\* ValueError and None raises TypeError
float(x) ==
  CASE x.t = "num" -> [ok |-> TRUE, v |-> x.v]
    [] x.t = "numstr" -> [ok |-> TRUE, v |-> x.v]
    [] OTHER -> [ok |-> FALSE, v |-> 0]

\* int(x): as float(x) for the whole numbers of the model
int(x) ==
  CASE x.t = "num" -> [ok |-> TRUE, v |-> x.v]
    [] x.t = "numstr" -> [ok |-> TRUE, v |-> x.v]
    [] OTHER -> [ok |-> FALSE, v |-> 0]

\* round(x, 2): nearest multiple of 0.01, ties to the even cent
round2(x) ==
  LET q == x \div 100
      r == x % 100
  IN  IF r < 50 THEN 100 * q
      ELSE IF r > 50 THEN 100 * (q + 1)
      ELSE IF q % 2 = 0 THEN 100 * q ELSE 100 * (q + 1)

\* ---------------------------------------------------------- request bodies
\* Bodies posted to /api/cart/add.  The first two are the items of
\* test_app.py; the others leave text fields out or carry a cost that is
\* not a number.
AddRequests ==
  { [service |-> "EC2", resourceType |-> "t2.micro",
     specifications |-> "1 vCPU, 1GB RAM, Linux",
     region |-> "US East (N. Virginia)", quantity |-> 1,
     hourlyCost |-> Num(116), monthlyCost |-> Num(84680)],
    [service |-> "S3", resourceType |-> "Storage",
     specifications |-> "100 GB, Standard",
     region |-> "US East (N. Virginia)", quantity |-> 1,
     hourlyCost |-> Num(30), monthlyCost |-> Num(23000)],
    [service |-> None, resourceType |-> "db.t3.micro",
     specifications |-> None,
     region |-> "EU (Ireland)", quantity |-> 2,
     hourlyCost |-> Absent, monthlyCost |-> NumStr(124100)],
    [service |-> "EC2", resourceType |-> "t2.micro",
     specifications |-> "1 vCPU, 1GB RAM, Linux",
     region |-> "US East (N. Virginia)", quantity |-> 1,
     hourlyCost |-> BadStr, monthlyCost |-> Num(84680)],
    [service |-> "S3", resourceType |-> "Storage",
     specifications |-> "100 GB, Standard",
     region |-> "US East (N. Virginia)", quantity |-> 1,
     hourlyCost |-> Num(30), monthlyCost |-> Null] }

\* ------------------------------------------------------------------- state
VARIABLES
  cart,       \* cart[s]: session['cart'] of session s, a sequence of items
  has_cart,   \* has_cart[s]: 'cart' in session
  issued,     \* issued[i]: the session whose add drew id i, or NoSession
  last,       \* the request served last and the response it returned
  pricing_client,  \* the module-level client of app.py, fixed at import
  pricing_data,    \* pricing_data of the scraper singleton: the Price Table
  in_flight   \* in_flight[w]: the request thread w is serving, or Idle

vars == <<cart, has_cart, issued, last, pricing_client, pricing_data, in_flight>>

\* ---------------------------------------------------------------- helpers
\* a loop that keeps the last item's cost instead of accumulating
SumMonthly_last(items) ==
  IF items = <<>> THEN 0 ELSE items[Len(items)].monthlyCost

RECURSIVE SumMonthly(_)
\* sum(item.get('monthlyCost', 0) for item in items)
SumMonthly(items) ==
  IF items = <<>> THEN 0
  ELSE SumMonthly(SubSeq(items, 1, Len(items) - 1)) + items[Len(items)].monthlyCost

ItemIds(items) == { items[i].id : i \in 1..Len(items) }

\* The request served and its response; a handler fills in the fields its
\* JSON body has.  before is the length of the session's cart when the
\* request arrived.
NoReq == [resource |-> "", region |-> "", attr |-> "", option |-> "",
          n |-> Absent]

NoCsv == [ok |-> FALSE, generated |-> "", total_resources |-> 0,
          item_rows |-> <<>>,
          monthly |-> 0, annual |-> 0,
          service_rows |-> <<>>, region_rows |-> <<>>]

Response(op, s) ==
  [op |-> op, sess |-> s, arg |-> InvalidId, before |-> Len(cart[s]),
   success |-> TRUE, status |-> 200, cartCount |-> 0, count |-> 0, total |-> 0, items |-> <<>>,
   csv |-> NoCsv, req |-> NoReq, data |-> <<>>,
   error |-> "", backend |-> "", calls |-> 0, raised |-> "", returned |-> 0,
   instances |-> <<>>,
   mimetype |-> "application/json", disposition |-> ""]

\* except Exception as e: {'success': False, 'error': str(e)}, 500
Error(op, s) ==
  [Response(op, s) EXCEPT !.success = FALSE, !.status = 500,
     !.error = "exception"]

\* ------------------------------------------------------------- CSV report
\* Position of each text of the model in Python's ordering of str
StrRank ==
  ("EC2" :> 1) @@ ("EU (Ireland)" :> 2) @@ ("RDS" :> 3) @@ ("S3" :> 4)
  @@ ("US East (N. Virginia)" :> 5) @@ ("m5.large" :> 6)
  @@ ("t2.micro" :> 7) @@ ("t2.nano" :> 8) @@ (None :> 0)

\* sorted(keys) raises TypeError when it has to compare None with a str
Sortable(keys) == ~(None \in keys /\ Cardinality(keys) > 1)

\* sorted(keys) as a sequence
sorted(keys) ==
  CHOOSE q \in [1..Cardinality(keys) -> keys] :
    /\ \A i, j \in 1..Cardinality(keys) : i < j => StrRank[q[i]] < StrRank[q[j]]

\* f'${x:,.2f}': the amount printed with two decimals
fmt2(x) == round2(x)

\* the key -> (count, monthly) grouping loops of the two breakdown sections
GroupItems(items, field, key) == SelectSeq(items, LAMBDA it : it[field] = key)

GroupKeys(items, field) == { items[i][field] : i \in 1..Len(items) }

GroupRows(items, field) ==
  LET q == sorted(GroupKeys(items, field))
  IN  [k \in 1..Len(q) |->
         LET monthly == SumMonthly(GroupItems(items, field, q[k]))
         IN  [key |-> q[k],
              count |-> Len(GroupItems(items, field, q[k])),
              monthly |-> fmt2(monthly),
              annual |-> fmt2(monthly * 12)]]

ItemRow(item) ==
  [service |-> item.service, resource |-> item.resourceType,
   specs |-> item.specifications, region |-> item.region,
   qty |-> item.quantity, hourly |-> item.hourlyCost,
   monthly |-> fmt2(item.monthlyCost),
   annual |-> fmt2(item.monthlyCost * 12)]

\* the fixed texts every report has: its title, the section titles, the
\* column headers, the labels of the summary rows, the notes and the footer
Labels ==
  { "AWS COST ESTIMATE REPORT", "Generated", "Total Resources",
    "RESOURCE BREAKDOWN",
    "Service", "Resource", "Specifications", "Region", "Qty", "Hourly Rate",
    "Monthly Cost", "Annual Cost",
    "COST SUMMARY", "Period", "Total Cost", "Monthly", "Annual",
    "COST BY SERVICE", "Resources", "COST BY REGION",
    "IMPORTANT NOTES", "1. Pricing Basis", "2. Monthly Hours", "3. Currency",
    "4. Exclusions", "5. Accuracy", "6. Actual Costs",
    "Report generated by AWS Cost Calculator", "https://calculator.aws/" }

\* what datetime.now().strftime("%Y-%m-%d %H:%M:%S") can return
Times == {"2026-01-01 12:00:00", "2026-01-01 12:00:01"}

\* a report whose item rows come in an order that varies with the render
generate_csv_report_unordered(cart_items, total_cost, now) ==
  IF Sortable(GroupKeys(cart_items, "service"))
     /\ Sortable(GroupKeys(cart_items, "region"))
  THEN [ok |-> TRUE,
        generated |-> now,
        total_resources |-> Len(cart_items),
        item_rows |-> [i \in 1..Len(cart_items) |->
                         IF now = "2026-01-01 12:00:00"
                         THEN ItemRow(cart_items[i])
                         ELSE ItemRow(cart_items[Len(cart_items) + 1 - i])],
        monthly |-> fmt2(total_cost),
        annual |-> fmt2(total_cost * 12),
        service_rows |-> GroupRows(cart_items, "service"),
        region_rows |-> GroupRows(cart_items, "region")]
  ELSE NoCsv

\* generate_csv_report(cart_items, total_cost), rendered when the clock
\* reads now: the document as its sections, or ok = FALSE when a sorted()
\* call raises
generate_csv_report(cart_items, total_cost, now) ==
  IF Sortable(GroupKeys(cart_items, "service"))
     /\ Sortable(GroupKeys(cart_items, "region"))
  THEN [ok |-> TRUE,
        generated |-> now,
        total_resources |-> Len(cart_items),
        item_rows |-> [i \in 1..Len(cart_items) |-> ItemRow(cart_items[i])],
        monthly |-> fmt2(total_cost),
        annual |-> fmt2(total_cost * 12),
        service_rows |-> GroupRows(cart_items, "service"),
        region_rows |-> GroupRows(cart_items, "region")]
  ELSE NoCsv

\* ------------------------------------------------------------ cart store
\* str(uuid.uuid4()): a random 122-bit token.  The draw is any token that
\* was not drawn before in this process; the handler never checks it.
\* a generator that can repeat a token
uuid4_any == Ids

uuid4 == { i \in Ids : issued[i] = NoSession }

\* ------------------------------------------------------------ price table
\* d.get(k, default) of a dict
dict_get(d, k, default) == IF k \in DOMAIN d THEN d[k] ELSE default

\* {} as the default of a .get on a nested table
EmptyDict == [k \in {} |-> 0]

US_EAST == "US East (N. Virginia)"

\* REGION_MULTIPLIERS, in hundredths (two of its regions)
REGION_MULTIPLIERS == (US_EAST :> 100) @@ ("EU (Ireland)" :> 112)

\* round(price * multiplier, 4)
round4(price, multiplier) == (price * multiplier + 50) \div 100

\* EC2_PRICING as written in the file (three instance types)
EC2_LISTED ==
  (US_EAST :> (("t2.nano" :> [Linux |-> 58, Windows |-> 104])
               @@ ("t2.micro" :> [Linux |-> 116, Windows |-> 162])
               @@ ("m5.large" :> [Linux |-> 960, Windows |-> 1920])))
  @@ ("EU (Ireland)" :> (("t2.micro" :> [Linux |-> 126, Windows |-> 172])
                         @@ ("m5.large" :> [Linux |-> 1070, Windows |-> 2030])))

\* EC2_PRICING after get_all_regions_pricing(): every region of
\* REGION_MULTIPLIERS gets the US East instance types it does not list
EC2_PRICING ==
  [region \in DOMAIN EC2_LISTED \cup DOMAIN REGION_MULTIPLIERS |->
     LET listed == dict_get(EC2_LISTED, region, EmptyDict)
         us_east_instances == EC2_LISTED[US_EAST]
     IN  [instance_type \in DOMAIN listed \cup
                            (IF region \in DOMAIN REGION_MULTIPLIERS
                             THEN DOMAIN us_east_instances ELSE {}) |->
            IF instance_type \in DOMAIN listed
            THEN listed[instance_type]
            ELSE [os \in DOMAIN us_east_instances[instance_type] |->
                    round4(us_east_instances[instance_type][os],
                           REGION_MULTIPLIERS[region])]]]

RDS_BASE_US_EAST ==
  ("db.t3.micro" :> ("MySQL" :> (("Single-AZ" :> 170) @@ ("Multi-AZ" :> 340))))

S3_BASE ==
  ("General Purpose" :> 230) @@ ("Infrequent Access" :> 125) @@ ("Archive" :> 40)

VPC_BASE == ("NatGateway" :> 450) @@ ("VPN" :> 500)

ALB_BASE == 225

\* FALLBACK_PRICING once the module is loaded
FALLBACK_PRICING ==
  [EC2 |-> EC2_PRICING,
   RDS |-> [region \in DOMAIN REGION_MULTIPLIERS |->
              [instance_type \in DOMAIN RDS_BASE_US_EAST |->
                 [engine \in DOMAIN RDS_BASE_US_EAST[instance_type] |->
                    [deployment \in DOMAIN RDS_BASE_US_EAST[instance_type][engine] |->
                       round4(RDS_BASE_US_EAST[instance_type][engine][deployment],
                              REGION_MULTIPLIERS[region])]]]],
   S3 |-> [region \in DOMAIN REGION_MULTIPLIERS |->
             [storage_class \in DOMAIN S3_BASE |->
                round4(S3_BASE[storage_class], REGION_MULTIPLIERS[region])]],
   VPC |-> [region \in DOMAIN REGION_MULTIPLIERS |->
              [component \in DOMAIN VPC_BASE |->
                 round4(VPC_BASE[component], REGION_MULTIPLIERS[region])]],
   ALB |-> [region \in DOMAIN REGION_MULTIPLIERS |->
              round4(ALB_BASE, REGION_MULTIPLIERS[region])],
   Route53 |-> [HostedZone |-> 5000, Queries |-> 4000]]

\* ---------------------------------------------------------- pricing client
\* pricing_client of app.py: None when the constructor raised, else a client
\* with use_bulk_pricing set (static table) or clear (AWS Pricing API)
NoClient == "None"
BulkClient == "bulk"
ApiClient == "api"

\* what describe_services(MaxResults=1) does in the constructor
InitProbes == {"ok", "NoCredentialsError", "ClientError", "EndpointConnectionError"}

\* AWSPricingClient() under try/except at the import of app.py
AWSPricingClient(probe) ==
  CASE probe = "ok" -> ApiClient
    [] probe \in {"NoCredentialsError", "ClientError"} -> BulkClient
    [] OTHER -> NoClient

\* bulk_client is None outside static-table mode: there is no scraper and
\* no pricing_data
NoTable == EmptyDict

\* fetch_all_pricing(), run once by get_live_pricing_scraper() when the
\* singleton is made: self.pricing_data = FALLBACK_PRICING.copy()
fetch_all_pricing == FALLBACK_PRICING

\* the threads of the development server that serve requests at a time
Threads == {"t1", "t2"}
Idle == [op |-> "idle"]

\* pricing_client.use_bulk_pricing
use_bulk_pricing == pricing_client = BulkClient

Init ==
  /\ cart = [s \in Sessions |-> <<>>]
  /\ has_cart = [s \in Sessions |-> FALSE]
  /\ issued = [i \in Ids |-> NoSession]
  /\ last = [op |-> "none", sess |-> NoSession, arg |-> InvalidId, before |-> 0,
             success |-> TRUE, status |-> 200, cartCount |-> 0, count |-> 0,
             total |-> 0, items |-> <<>>, csv |-> NoCsv, req |-> NoReq,
             data |-> <<>>, error |-> "", backend |-> "", calls |-> 0,
             raised |-> "", returned |-> 0, instances |-> <<>>,
             mimetype |-> "", disposition |-> ""]
  /\ \E probe \in InitProbes : pricing_client = AWSPricingClient(probe)
  /\ pricing_data = IF pricing_client = BulkClient THEN fetch_all_pricing
                    ELSE NoTable
  /\ in_flight = [w \in Threads |-> Idle]

\* GET /
index(s) ==
  /\ has_cart' = [has_cart EXCEPT ![s] = TRUE]
  /\ last' = Response("index", s)
  /\ UNCHANGED <<cart, issued, pricing_client, pricing_data, in_flight>>

\* the item add_to_cart builds from the request body
cart_item(id, data) ==
  [id |-> id, service |-> data.service, resourceType |-> data.resourceType,
   specifications |-> data.specifications, region |-> data.region,
   quantity |-> data.quantity,
   hourlyCost |-> float(get(data.hourlyCost, 0)).v,
   monthlyCost |-> float(get(data.monthlyCost, 0)).v]

\* insert(0, cart_item) in place of append
append_front(items, item) == <<item>> \o items

\* session['cart'].append(cart_item)
append(items, item) == Append(items, item)

\* the index of the last item in place of the length
cartCount_index(items) == IF items = <<>> THEN 0 ELSE Len(items) - 1

\* 'cartCount': len(session['cart'])
cartCount(items) == Len(items)

\* one cart shared by every session in place of session['cart']
add_to_cart_shared(s, data, id) ==
  /\ id \in uuid4
  /\ has_cart' = [has_cart EXCEPT ![s] = TRUE]
  /\ issued' = [issued EXCEPT ![id] = s]
  /\ IF float(get(data.hourlyCost, 0)).ok /\ float(get(data.monthlyCost, 0)).ok
     THEN /\ cart' = [t \in Sessions |-> Append(cart[t], cart_item(id, data))]
          /\ last' = [Response("add", s) EXCEPT !.arg = id,
                        !.cartCount = cartCount(cart'[s])]
     ELSE /\ cart' = cart
          /\ last' = [Error("add", s) EXCEPT !.arg = id]
  /\ UNCHANGED <<pricing_client, pricing_data, in_flight>>

\* a handler that appends the item before it converts the costs, so a
\* failed conversion leaves an item with no costs behind
add_to_cart_append_first(s, data, id) ==
  /\ id \in uuid4
  /\ has_cart' = [has_cart EXCEPT ![s] = TRUE]
  /\ issued' = [issued EXCEPT ![id] = s]
  /\ cart' = [cart EXCEPT ![s] = append(cart[s], cart_item(id, data))]
  /\ IF float(get(data.hourlyCost, 0)).ok /\ float(get(data.monthlyCost, 0)).ok
     THEN last' = [Response("add", s) EXCEPT !.arg = id,
                     !.cartCount = cartCount(cart'[s])]
     ELSE last' = [Error("add", s) EXCEPT !.arg = id]
  /\ UNCHANGED <<pricing_client, pricing_data, in_flight>>

\* POST /api/cart/add
add_to_cart(s, data, id) ==
  /\ id \in uuid4
  /\ has_cart' = [has_cart EXCEPT ![s] = TRUE]
  /\ issued' = [issued EXCEPT ![id] = s]
  /\ IF float(get(data.hourlyCost, 0)).ok /\ float(get(data.monthlyCost, 0)).ok
     THEN /\ cart' = [cart EXCEPT ![s] = append(cart[s], cart_item(id, data))]
          /\ last' = [Response("add", s) EXCEPT !.arg = id,
                        !.cartCount = cartCount(cart'[s])]
     ELSE /\ cart' = cart
          /\ last' = [Error("add", s) EXCEPT !.arg = id]
  /\ UNCHANGED <<pricing_client, pricing_data, in_flight>>

\* GET /api/cart/items
get_cart_items(s) ==
  /\ has_cart' = [has_cart EXCEPT ![s] = TRUE]
  /\ last' = [Response("items", s) EXCEPT !.items = cart[s],
                !.count = Len(cart[s])]
  /\ UNCHANGED <<cart, issued, pricing_client, pricing_data, in_flight>>

\* a removal that pops the last item when the id is not found
without_pop(items, item_id) ==
  IF \E i \in 1..Len(items) : items[i].id = item_id
  THEN SelectSeq(items, LAMBDA it : it.id # item_id)
  ELSE SubSeq(items, 1, Len(items) - 1)

\* [item for item in session['cart'] if item['id'] != item_id]
without(items, item_id) == SelectSeq(items, LAMBDA it : it.id # item_id)

\* DELETE /api/cart/remove/<item_id>
remove_from_cart(s, item_id) ==
  /\ has_cart' = [has_cart EXCEPT ![s] = TRUE]
  /\ cart' = [cart EXCEPT ![s] = without(cart[s], item_id)]
  /\ last' = [Response("remove", s) EXCEPT !.arg = item_id,
                !.cartCount = cartCount(cart'[s])]
  /\ UNCHANGED <<issued, pricing_client, pricing_data, in_flight>>

\* a clear that drops only the first item
cleared_first(items) == IF items = <<>> THEN <<>> ELSE Tail(items)

\* session['cart'] = [] of clear_cart
cleared(items) == <<>>

\* DELETE /api/cart/clear
clear_cart(s) ==
  /\ has_cart' = [has_cart EXCEPT ![s] = TRUE]
  /\ cart' = [cart EXCEPT ![s] = cleared(cart[s])]
  /\ last' = Response("clear", s)
  /\ UNCHANGED <<issued, pricing_client, pricing_data, in_flight>>

\* GET /api/cart/total
get_cart_total(s) ==
  /\ has_cart' = [has_cart EXCEPT ![s] = TRUE]
  /\ last' = [Response("total", s) EXCEPT
                !.total = round2(SumMonthly(cart[s])),
                !.count = Len(cart[s])]
  /\ UNCHANGED <<cart, issued, pricing_client, pricing_data, in_flight>>

\* an export that empties the cart it has rendered
export_csv_clearing(s, now) ==
  /\ has_cart' = [has_cart EXCEPT ![s] = TRUE]
  /\ LET csv_content == generate_csv_report(cart[s], SumMonthly(cart[s]), now)
     IN  last' = IF csv_content.ok
                 THEN [Response("export", s) EXCEPT !.csv = csv_content,
                         !.mimetype = "text/csv",
                         !.disposition = "attachment"]
                 ELSE Error("export", s)
  /\ cart' = [cart EXCEPT ![s] = <<>>]
  /\ UNCHANGED <<issued, pricing_client, pricing_data, in_flight>>

\* GET /api/export/csv
export_csv(s, now) ==
  /\ has_cart' = [has_cart EXCEPT ![s] = TRUE]
  /\ LET csv_content == generate_csv_report(cart[s], SumMonthly(cart[s]), now)
     IN  last' = IF csv_content.ok
                 THEN [Response("export", s) EXCEPT !.csv = csv_content,
                         !.mimetype = "text/csv",
                         !.disposition = "attachment"]
                 ELSE Error("export", s)
  /\ UNCHANGED <<cart, issued, pricing_client, pricing_data, in_flight>>

Next ==
  \/ \E s \in Sessions : index(s)
  \/ \E s \in Sessions, data \in AddRequests, id \in Ids : add_to_cart(s, data, id)
  \/ \E s \in Sessions : get_cart_items(s)
  \/ \E s \in Sessions, item_id \in Ids \cup {InvalidId} : remove_from_cart(s, item_id)
  \/ \E s \in Sessions : clear_cart(s)
  \/ \E s \in Sessions : get_cart_total(s)
  \/ \E s \in Sessions, now \in Times : export_csv(s, now)

\* The cart routes read neither pricing_client nor the Price Table, so
\* their behaviours are the same under each value of pricing_client; they
\* are explored for the process of a deployment with credentials, which
\* loads no table.
InitApi == Init /\ pricing_client = ApiClient

Spec == InitApi /\ [][Next]_vars

\* --------------------------------------------------------- price resolver
\* A product of a pricing response with its first price entry.  service is
\* None and has_monthly, has_quantity are FALSE where the dict has no such
\* key; has_price is FALSE when its list of prices is empty.  amount is the
\* number the price denotes, also where the dict keeps it as text.
Product(service, resource, location, amount, unit) ==
  [service |-> service, resource |-> resource, location |-> location,
   has_price |-> TRUE, amount |-> amount, unit |-> unit,
   has_monthly |-> FALSE, monthly_cost |-> 0,
   has_quantity |-> FALSE, quantity |-> 0, storageGB |-> 0]

HOURS_PER_MONTH == 730
S3_DEFAULT_PRICE == 230
VPC_DEFAULT_PRICE == 450
ALB_DEFAULT_PRICE == 225
ROUTE53_DEFAULT_PRICE == 5000

find_ec2_pricing(instance_type, region, os) ==
  LET region_pricing == dict_get(pricing_data.EC2, region, EmptyDict)
      instance_pricing == dict_get(region_pricing, instance_type, EmptyDict)
      hourly_price == dict_get(instance_pricing, os, 0)
      us_pricing == dict_get(pricing_data.EC2, US_EAST, EmptyDict)
      us_price == dict_get(dict_get(us_pricing, instance_type, EmptyDict), os, 0)
  IN  << Product(None, instance_type, region,
                 IF hourly_price = 0 THEN us_price ELSE hourly_price, "Hrs") >>

find_rds_pricing(instance_type, region, engine, deployment) ==
  LET region_pricing == dict_get(pricing_data.RDS, region, EmptyDict)
      instance_pricing == dict_get(region_pricing, instance_type, EmptyDict)
      engine_pricing == dict_get(instance_pricing, engine, EmptyDict)
      hourly_price == dict_get(engine_pricing, deployment, 0)
      us_pricing == dict_get(pricing_data.RDS, US_EAST, EmptyDict)
      us_price == dict_get(dict_get(dict_get(us_pricing, instance_type, EmptyDict),
                                    engine, EmptyDict), deployment, 0)
  IN  << Product(None, instance_type, region,
                 IF hourly_price = 0 THEN us_price ELSE hourly_price, "Hrs") >>

find_s3_pricing(storage_class, region, storage_gb) ==
  LET region_pricing == dict_get(pricing_data.S3, region, EmptyDict)
      price_per_gb == dict_get(region_pricing, storage_class, S3_DEFAULT_PRICE)
  IN  << [Product("S3", storage_class, region, price_per_gb, "GB-Mo") EXCEPT
            !.has_monthly = TRUE, !.monthly_cost = price_per_gb * storage_gb,
            !.storageGB = storage_gb] >>

find_vpc_pricing(component, region, quantity) ==
  LET region_pricing == dict_get(pricing_data.VPC, region, EmptyDict)
      hourly_price == dict_get(region_pricing, component, VPC_DEFAULT_PRICE)
  IN  << [Product("VPC", component, region, hourly_price, "Hrs") EXCEPT
            !.has_monthly = TRUE,
            !.monthly_cost = hourly_price * HOURS_PER_MONTH * quantity] >>

find_alb_pricing(region, quantity) ==
  LET hourly_price == dict_get(pricing_data.ALB, region, ALB_DEFAULT_PRICE)
  IN  << [Product("ALB", "Load Balancer-Application", region, hourly_price, "Hrs")
            EXCEPT !.has_monthly = TRUE,
                   !.monthly_cost = hourly_price * HOURS_PER_MONTH * quantity] >>

find_route53_pricing(component, quantity) ==
  LET monthly_price == dict_get(pricing_data.Route53, component, ROUTE53_DEFAULT_PRICE)
  IN  << [Product("Route53", component, None, monthly_price, "Month") EXCEPT
            !.has_monthly = TRUE, !.monthly_cost = monthly_price * quantity] >>

\* ------------------------------------------------------- AWS Pricing API
\* json.loads of one element of the PriceList the API returns: product
\* attributes and at most one OnDemand price dimension (pricePerUnit.USD,
\* unit).  It has no 'service' key.
ApiProduct(location, usd, unit, has_price) ==
  [Product(None, "N/A", location, usd, unit) EXCEPT !.has_price = has_price]

\* the units the API prices a service in
ApiUnit(service_code) ==
  CASE service_code = "AmazonS3" -> "GB-Mo"
    [] service_code = "AmazonRoute53" -> "Month"
    [] OTHER -> "Hrs"

\* what client.get_products(**params) does: it raises a ClientError or a
\* BotoCoreError (a timeout among them), or it returns a PriceList, which
\* may be empty
ApiOutcomes(service_code) ==
  { [ok |-> FALSE, error |-> e, PriceList |-> <<>>] :
      e \in {"ClientError", "ReadTimeoutError"} }
  \cup
  { [ok |-> TRUE, error |-> "", PriceList |-> pl] :
      pl \in { <<>>,
               << ApiProduct(US_EAST, 120, ApiUnit(service_code), TRUE) >>,
               << ApiProduct("EU (Ireland)", 135, ApiUnit(service_code), TRUE),
                  ApiProduct("EU (Ireland)", 0, "N/A", FALSE) >> } }

\* a get_products that answers a failed call with an empty list
get_products_swallow(outcome) ==
  [ok |-> TRUE, products |-> outcome.PriceList, calls |-> 1,
   backend |-> ApiClient, raised |-> outcome.error,
   returned |-> Len(outcome.PriceList)]

\* AWSPricingClient.get_products: one call of the API; its ClientError or
\* BotoCoreError is raised again as Exception.  raised and returned record
\* what the API did: the error it raised, the length of its PriceList.
get_products(outcome) ==
  [ok |-> outcome.ok,
   products |-> IF outcome.ok THEN outcome.PriceList ELSE <<>>,
   calls |-> 1, backend |-> ApiClient, raised |-> outcome.error,
   returned |-> Len(outcome.PriceList)]

\* the products a method of the client takes from the static table
Bulk(products) ==
  [ok |-> TRUE, products |-> products, calls |-> 0, backend |-> BulkClient,
   raised |-> "", returned |-> 0]

\* a lookup that charges a surcharge on the table price for a tenancy
\* other than Shared
AWSPricingClient_get_ec2_pricing_surcharge(instance_type, region, operating_system, tenancy, outcome) ==
  IF use_bulk_pricing
  THEN Bulk([k \in {1} |->
               LET product == find_ec2_pricing(instance_type, region,
                                               operating_system)[1]
               IN  [product EXCEPT !.amount =
                      IF tenancy = "Shared" THEN @ ELSE 2 * @]])
  ELSE get_products(outcome)

\* AWSPricingClient.get_ec2_pricing: the static table is asked without the
\* tenancy; the API gets it as one of the filters of the call
AWSPricingClient_get_ec2_pricing(instance_type, region, operating_system, tenancy, outcome) ==
  IF use_bulk_pricing
  THEN Bulk(find_ec2_pricing(instance_type, region, operating_system))
  ELSE get_products(outcome)

\* AWSPricingClient.get_rds_pricing
AWSPricingClient_get_rds_pricing(instance_type, region, database_engine, deployment_option, outcome) ==
  IF use_bulk_pricing
  THEN Bulk(find_rds_pricing(instance_type, region, database_engine,
                             deployment_option))
  ELSE get_products(outcome)

\* AWSPricingClient.get_s3_pricing
AWSPricingClient_get_s3_pricing(storage_class, region, outcome) ==
  IF use_bulk_pricing
  THEN Bulk(find_s3_pricing(storage_class, region, 0))
  ELSE get_products(outcome)

\* AWSPricingClient.get_vpc_pricing
AWSPricingClient_get_vpc_pricing(component, region, outcome) ==
  IF use_bulk_pricing
  THEN Bulk(find_vpc_pricing(component, region, 1))
  ELSE get_products(outcome)

\* AWSPricingClient.get_alb_pricing
AWSPricingClient_get_alb_pricing(region, outcome) ==
  IF use_bulk_pricing
  THEN Bulk(find_alb_pricing(region, 1))
  ELSE get_products(outcome)

\* AWSPricingClient.get_route53_pricing
AWSPricingClient_get_route53_pricing(component, outcome) ==
  IF use_bulk_pricing
  THEN Bulk(find_route53_pricing(component, 1))
  ELSE get_products(outcome)

\* AWSPricingClient.get_services: one describe_services call
get_services(outcome) ==
  [ok |-> outcome.ok, products |-> <<>>, calls |-> 1, backend |-> ApiClient,
   raised |-> outcome.error, returned |-> 0]

\* -------------------------------------------------------- cost normalizer
\* format_pricing_data: the attributes and the price entries (amount, unit,
\* description) of the products of the API, without a monthly cost
format_pricing_data(products) ==
  [k \in 1..Len(products) |->
     [products[k] EXCEPT !.has_monthly = FALSE, !.monthly_cost = 0,
        !.has_quantity = FALSE, !.quantity = 0]]

\* a normalizer that bills a month of hours for every GB
s3_monthly_cost_hourly(price_per_unit, storage_gb) ==
  price_per_unit * HOURS_PER_MONTH * storage_gb

\* price_per_unit * storage_gb if storage_gb > 0 else 0, of the products of
\* the API
s3_monthly_cost(price_per_unit, storage_gb) ==
  IF storage_gb > 0 THEN price_per_unit * storage_gb ELSE 0

\* format_s3_pricing_data: a product of the static table keeps its shape
\* and gets the size and the monthly cost; a product of the API is rebuilt
format_s3_pricing_data(products, storage_gb) ==
  [k \in 1..Len(products) |->
     IF products[k].service = "S3"
     THEN [products[k] EXCEPT !.storageGB = storage_gb,
             !.has_monthly = TRUE,
             !.monthly_cost = products[k].amount * storage_gb]
     ELSE [Product("S3", products[k].resource, products[k].location,
                   products[k].amount, products[k].unit) EXCEPT
             !.has_price = products[k].has_price,
             !.storageGB = storage_gb,
             !.has_monthly = products[k].has_price,
             !.monthly_cost =
                IF products[k].has_price
                THEN s3_monthly_cost(products[k].amount, storage_gb)
                ELSE 0]]

\* a normalizer that treats every unit as a flat monthly price
monthly_cost_flat(amount, unit, quantity) == amount * quantity

\* a normalizer that bills every unit by the hour
monthly_cost_hourly(amount, unit, quantity) == amount * HOURS_PER_MONTH * quantity

\* the monthly cost format_single_price derives from the price entry
monthly_cost(amount, unit, quantity) ==
  IF unit = "Hrs" THEN amount * HOURS_PER_MONTH * quantity
  ELSE amount * quantity

\* a normalizer that hands the products on as they came
format_single_price_raw(products, service_name, quantity) == products

\* format_single_price: a product of the static table keeps its shape and
\* gets the quantity and the monthly cost; a product of the API is rebuilt
format_single_price(products, service_name, quantity) ==
  [k \in 1..Len(products) |->
     IF products[k].service \in {"VPC", "ALB", "Route53"}
     THEN [products[k] EXCEPT
             !.has_monthly = TRUE,
             !.monthly_cost = monthly_cost(products[k].amount, products[k].unit,
                                           quantity),
             !.has_quantity = TRUE, !.quantity = quantity]
     ELSE [Product(service_name, products[k].resource, products[k].location,
                   products[k].amount, products[k].unit) EXCEPT
             !.has_price = products[k].has_price,
             !.has_quantity = TRUE, !.quantity = quantity,
             !.has_monthly = products[k].has_price,
             !.monthly_cost =
                IF products[k].has_price
                THEN monthly_cost(products[k].amount, products[k].unit, quantity)
                ELSE 0]]

\* ------------------------------------------------------ pricing endpoints
\* the selectors the model sends: keys of the table and keys it does not hold
ReqRegions == {US_EAST, "EU (Ireland)", "Mars"}
ReqInstanceTypes == {"t2.nano", "t2.micro", "m5.large", "t9.bogus"}
ReqOperatingSystems == {"Linux", "Windows", "RHEL"}
ReqTenancies == {"Shared", "Dedicated", "Host"}
ReqDbInstanceTypes == {"db.t3.micro", "db.t9.bogus"}
ReqEngines == {"MySQL", "Oracle"}
ReqDeployments == {"Single-AZ", "Multi-AZ"}
ReqStorageClasses == {"General Purpose", "Infrequent Access", "Glacier"}
ReqVpcComponents == {"NatGateway", "VPN", "Peering"}
ReqRoute53Components == {"HostedZone", "Queries", "Bogus"}
ReqStorageGB == {Absent, Num(0), Num(100), BadStr}
ReqQuantities == {Absent, Num(1), Num(2), BadStr, Null}

\* {'success': False, 'error': 'AWS Pricing client not initialized'}, 500
NotInitialized(op, s) ==
  [Response(op, s) EXCEPT !.success = FALSE, !.status = 500,
     !.error = "AWS Pricing client not initialized"]

\* the response to a pricing query whose client call returned result
Priced(op, s, req, result, formatted_data) ==
  IF result.ok
  THEN [Response(op, s) EXCEPT !.req = req, !.data = formatted_data,
          !.count = Len(formatted_data), !.calls = result.calls,
          !.backend = result.backend, !.raised = result.raised,
          !.returned = result.returned]
  ELSE [Error(op, s) EXCEPT !.req = req, !.calls = result.calls,
          !.backend = result.backend, !.raised = result.raised]

\* POST /api/pricing/ec2
get_ec2_pricing(s, instanceType, region, operatingSystem, tenancy, outcome) ==
  LET req == [NoReq EXCEPT !.resource = instanceType, !.region = region,
                !.attr = operatingSystem, !.option = tenancy]
      result == AWSPricingClient_get_ec2_pricing(instanceType, region,
                                                 operatingSystem, tenancy,
                                                 outcome)
      formatted_data == IF use_bulk_pricing THEN result.products
                        ELSE format_pricing_data(result.products)
  IN  /\ last' = IF pricing_client = NoClient THEN NotInitialized("ec2", s)
                 ELSE Priced("ec2", s, req, result, formatted_data)
      /\ UNCHANGED <<cart, has_cart, issued, pricing_client, pricing_data, in_flight>>

\* POST /api/pricing/rds
get_rds_pricing(s, instanceType, region, databaseEngine, deploymentOption, outcome) ==
  LET req == [NoReq EXCEPT !.resource = instanceType, !.region = region,
                !.attr = databaseEngine, !.option = deploymentOption]
      result == AWSPricingClient_get_rds_pricing(instanceType, region,
                                                 databaseEngine, deploymentOption,
                                                 outcome)
      formatted_data == IF use_bulk_pricing THEN result.products
                        ELSE format_pricing_data(result.products)
  IN  /\ last' = IF pricing_client = NoClient THEN NotInitialized("rds", s)
                 ELSE Priced("rds", s, req, result, formatted_data)
      /\ UNCHANGED <<cart, has_cart, issued, pricing_client, pricing_data, in_flight>>

\* POST /api/pricing/s3
get_s3_pricing(s, storageClass, region, storageGB, outcome) ==
  LET req == [NoReq EXCEPT !.resource = storageClass, !.region = region,
                !.n = storageGB]
      storage_gb == float(get(storageGB, 0))
      result == AWSPricingClient_get_s3_pricing(storageClass, region, outcome)
  IN  /\ last' = IF pricing_client = NoClient THEN NotInitialized("s3", s)
                 ELSE IF ~storage_gb.ok THEN [Error("s3", s) EXCEPT !.req = req]
                 ELSE Priced("s3", s, req, result,
                             format_s3_pricing_data(result.products, storage_gb.v))
      /\ UNCHANGED <<cart, has_cart, issued, pricing_client, pricing_data, in_flight>>

\* a handler that switches the process to the static table for good when
\* the call of the API fails
get_vpc_pricing_fallback(s, component, region, quantity, outcome) ==
  LET req == [NoReq EXCEPT !.resource = component, !.region = region,
                !.n = quantity]
      q == int(get(quantity, 1))
      result == AWSPricingClient_get_vpc_pricing(component, region, outcome)
  IN  /\ last' = IF pricing_client = NoClient THEN NotInitialized("vpc", s)
                 ELSE IF ~q.ok THEN [Error("vpc", s) EXCEPT !.req = req]
                 ELSE Priced("vpc", s, req, result,
                             format_single_price(result.products, "VPC", q.v))
      /\ pricing_client' = IF pricing_client = ApiClient /\ q.ok /\ ~result.ok
                           THEN BulkClient ELSE pricing_client
      /\ UNCHANGED <<cart, has_cart, issued, pricing_data, in_flight>>

\* a handler whose normalization step writes the monthly cost it computes
\* into the table entry the price was read from
get_vpc_pricing_aliased(s, component, region, quantity, outcome) ==
  LET req == [NoReq EXCEPT !.resource = component, !.region = region,
                !.n = quantity]
      q == int(get(quantity, 1))
      result == AWSPricingClient_get_vpc_pricing(component, region, outcome)
      formatted_data == format_single_price(result.products, "VPC", q.v)
  IN  /\ last' = IF pricing_client = NoClient THEN NotInitialized("vpc", s)
                 ELSE IF ~q.ok THEN [Error("vpc", s) EXCEPT !.req = req]
                 ELSE Priced("vpc", s, req, result, formatted_data)
      /\ pricing_data' =
           IF /\ use_bulk_pricing /\ q.ok
              /\ region \in DOMAIN pricing_data.VPC
              /\ component \in DOMAIN pricing_data.VPC[region]
           THEN [pricing_data EXCEPT
                   !.VPC[region][component] = formatted_data[1].monthly_cost]
           ELSE pricing_data
      /\ UNCHANGED <<cart, has_cart, issued, pricing_client, in_flight>>

\* POST /api/pricing/vpc
get_vpc_pricing(s, component, region, quantity, outcome) ==
  LET req == [NoReq EXCEPT !.resource = component, !.region = region,
                !.n = quantity]
      q == int(get(quantity, 1))
      result == AWSPricingClient_get_vpc_pricing(component, region, outcome)
  IN  /\ last' = IF pricing_client = NoClient THEN NotInitialized("vpc", s)
                 ELSE IF ~q.ok THEN [Error("vpc", s) EXCEPT !.req = req]
                 ELSE Priced("vpc", s, req, result,
                             format_single_price(result.products, "VPC", q.v))
      /\ UNCHANGED <<cart, has_cart, issued, pricing_client, pricing_data, in_flight>>

\* POST /api/pricing/alb
get_alb_pricing(s, region, quantity, outcome) ==
  LET req == [NoReq EXCEPT !.region = region, !.n = quantity]
      q == int(get(quantity, 1))
      result == AWSPricingClient_get_alb_pricing(region, outcome)
  IN  /\ last' = IF pricing_client = NoClient THEN NotInitialized("alb", s)
                 ELSE IF ~q.ok THEN [Error("alb", s) EXCEPT !.req = req]
                 ELSE Priced("alb", s, req, result,
                             format_single_price(result.products, "ALB", q.v))
      /\ UNCHANGED <<cart, has_cart, issued, pricing_client, pricing_data, in_flight>>

\* POST /api/pricing/route53
get_route53_pricing(s, component, quantity, outcome) ==
  LET req == [NoReq EXCEPT !.resource = component, !.n = quantity]
      q == int(get(quantity, 1))
      result == AWSPricingClient_get_route53_pricing(component, outcome)
  IN  /\ last' = IF pricing_client = NoClient THEN NotInitialized("route53", s)
                 ELSE IF ~q.ok THEN [Error("route53", s) EXCEPT !.req = req]
                 ELSE Priced("route53", s, req, result,
                             format_single_price(result.products, "Route53", q.v))
      /\ UNCHANGED <<cart, has_cart, issued, pricing_client, pricing_data, in_flight>>

\* ------------------------------------------------------ utility endpoints
\* GET /api/test-connection (every answer has status 200)
test_connection(s, outcome) ==
  /\ last' =
       IF pricing_client = NoClient
       THEN [Response("test", s) EXCEPT !.success = FALSE,
               !.error = "Pricing client not initialized"]
       ELSE IF use_bulk_pricing
       THEN [Response("test", s) EXCEPT !.backend = BulkClient]
       ELSE LET result == get_services(outcome)
            IN  [Response("test", s) EXCEPT !.success = result.ok,
                   !.error = IF result.ok THEN "" ELSE "exception",
                   !.calls = result.calls, !.backend = result.backend,
                   !.raised = result.raised]
  /\ UNCHANGED <<cart, has_cart, issued, pricing_client, pricing_data, in_flight>>

\* a listing that reads EC2_PRICING as the file writes it, before the other
\* regions are filled in from US East
get_available_instances_listed(s, region) ==
  LET req == [NoReq EXCEPT !.region = region]
      region_data == dict_get(EC2_LISTED, region, EmptyDict)
      instances == sorted(DOMAIN region_data)
  IN  /\ last' =
           IF pricing_client # NoClient /\ use_bulk_pricing
           THEN [Response("instances", s) EXCEPT !.req = req,
                   !.instances = instances, !.count = Len(instances),
                   !.backend = BulkClient]
           ELSE [Response("instances", s) EXCEPT !.req = req,
                   !.instances = << "t2.micro", "t3.micro", "m5.large" >>,
                   !.count = 3]
      /\ UNCHANGED <<cart, has_cart, issued, pricing_client, pricing_data, in_flight>>

\* the list get_available_instances answers with outside static-table mode
BASIC_INSTANCES == << "t2.micro", "t3.micro", "m5.large" >>

\* GET /api/available-instances?region=...
get_available_instances(s, region) ==
  LET req == [NoReq EXCEPT !.region = region]
      region_data == dict_get(pricing_data.EC2, region, EmptyDict)
      instances == sorted(DOMAIN region_data)
  IN  /\ last' =
           IF pricing_client # NoClient /\ use_bulk_pricing
           THEN [Response("instances", s) EXCEPT !.req = req,
                   !.instances = instances, !.count = Len(instances),
                   !.backend = BulkClient]
           ELSE [Response("instances", s) EXCEPT !.req = req,
                   !.instances = BASIC_INSTANCES, !.count = 3]
      /\ UNCHANGED <<cart, has_cart, issued, pricing_client, pricing_data, in_flight>>

\* no call of the API is made, so there is nothing it can answer
NoCall == [ok |-> FALSE, error |-> "", PriceList |-> <<>>]

\* what the API can answer to the call a request makes: only a client in
\* API mode calls it
Answers(service_code) ==
  IF pricing_client = ApiClient THEN ApiOutcomes(service_code) ELSE {NoCall}

\* the pricing queries and the utility endpoints
NextPricing ==
  \/ \E s \in Sessions, i \in ReqInstanceTypes, r \in ReqRegions,
        o \in ReqOperatingSystems, t \in ReqTenancies,
        outcome \in Answers("AmazonEC2") :
       get_ec2_pricing(s, i, r, o, t, outcome)
  \/ \E s \in Sessions, i \in ReqDbInstanceTypes, r \in ReqRegions,
        e \in ReqEngines, d \in ReqDeployments,
        outcome \in Answers("AmazonRDS") :
       get_rds_pricing(s, i, r, e, d, outcome)
  \/ \E s \in Sessions, c \in ReqStorageClasses, r \in ReqRegions,
        g \in ReqStorageGB, outcome \in Answers("AmazonS3") :
       get_s3_pricing(s, c, r, g, outcome)
  \/ \E s \in Sessions, c \in ReqVpcComponents, r \in ReqRegions,
        q \in ReqQuantities, outcome \in Answers("AmazonVPC") :
       get_vpc_pricing(s, c, r, q, outcome)
  \/ \E s \in Sessions, r \in ReqRegions, q \in ReqQuantities,
        outcome \in Answers("AWSELB") :
       get_alb_pricing(s, r, q, outcome)
  \/ \E s \in Sessions, c \in ReqRoute53Components, q \in ReqQuantities,
        outcome \in Answers("AmazonRoute53") :
       get_route53_pricing(s, c, q, outcome)
  \/ \E s \in Sessions, outcome \in Answers("") : test_connection(s, outcome)
  \/ \E s \in Sessions, r \in ReqRegions : get_available_instances(s, r)

\* ------------------------------------------------- the requests that read
\* Carts that adds fill, and every route that reads: the pricing queries
\* and the utility routes next to cart list, cart total and export.  Each
\* route gets few request bodies: the add request of test_app.py, one
\* selector per pricing query, and an API that fails or returns one
\* product.
AppAddRequests ==
  { data \in AddRequests :
      /\ data.resourceType = "t2.micro"
      /\ float(get(data.hourlyCost, 0)).ok }

AppOutcomes(service_code) ==
  { outcome \in Answers(service_code) :
      IF outcome.ok THEN Len(outcome.PriceList) = 1
      ELSE outcome.error = "ClientError" }

NextReads ==
  \/ \E s \in Sessions, data \in AppAddRequests, id \in Ids : add_to_cart(s, data, id)
  \/ \E s \in Sessions : get_cart_items(s)
  \/ \E s \in Sessions : get_cart_total(s)
  \/ \E s \in Sessions, now \in Times : export_csv(s, now)
  \/ \E s \in Sessions, outcome \in AppOutcomes("AmazonEC2") :
       get_ec2_pricing(s, "t2.micro", US_EAST, "Linux", "Shared", outcome)
  \/ \E s \in Sessions, outcome \in AppOutcomes("AmazonRDS") :
       get_rds_pricing(s, "db.t3.micro", US_EAST, "MySQL", "Single-AZ", outcome)
  \/ \E s \in Sessions, outcome \in AppOutcomes("AmazonS3") :
       get_s3_pricing(s, "General Purpose", US_EAST, Num(100), outcome)
  \/ \E s \in Sessions, outcome \in AppOutcomes("AmazonVPC") :
       get_vpc_pricing(s, "NatGateway", US_EAST, Num(2), outcome)
  \/ \E s \in Sessions, outcome \in AppOutcomes("AWSELB") :
       get_alb_pricing(s, US_EAST, Num(2), outcome)
  \/ \E s \in Sessions, outcome \in AppOutcomes("AmazonRoute53") :
       get_route53_pricing(s, "HostedZone", Num(2), outcome)
  \/ \E s \in Sessions, outcome \in AppOutcomes("") : test_connection(s, outcome)
  \/ \E s \in Sessions : get_available_instances(s, US_EAST)

ReadSpec == Init /\ [][NextReads]_vars

PricingSpec == Init /\ [][NextPricing]_vars

\* =================================================================== cart
\* the sum of the monthly costs of the items at the positions I
RECURSIVE SumAt(_, _)
SumAt(items, I) ==
  IF I = {} THEN 0
  ELSE LET i == CHOOSE x \in I : TRUE
       IN  items[i].monthlyCost + SumAt(items, I \ {i})

\* C1: removing an id that is not in the session's cart reports success and
\* leaves the cart's contents, order and size unchanged (so a second removal
\* of the same id succeeds and changes nothing).
C1_RemoveAbsentIsNoOp ==
  [][(last'.op = "remove" /\ last'.arg \notin ItemIds(cart[last'.sess]))
       => /\ last'.success
          /\ cart'[last'.sess] = cart[last'.sess]
          /\ last'.cartCount = Len(cart[last'.sess])]_vars

\* a removal of an id the session was given earlier and no longer holds,
\* from a cart of two items that stays as it was
C1_Witness ==
  /\ last.op = "remove" /\ last.success
  /\ last.arg \in Ids /\ issued[last.arg] = last.sess
  /\ last.before >= 2 /\ Len(cart[last.sess]) = last.before
  /\ last.cartCount = last.before

\* C2 as claimed: the total returned equals the sum of monthlyCost over the
\* items of the session's cart.
C2_TotalIsSum ==
  last.op = "total"
    => last.total = SumAt(cart[last.sess], DOMAIN cart[last.sess])

\* C2 amended: the total returned is the sum of monthlyCost over exactly the
\* items of the session's cart rounded to two decimals (a whole number of
\* cents no more than half a cent from the sum), and 0 for an empty cart.
C2_TotalIsRoundedSum ==
  last.op = "total"
    => LET sum == SumAt(cart[last.sess], DOMAIN cart[last.sess])
       IN  /\ last.success
           /\ last.total % 100 = 0
           /\ last.total - sum <= 50 /\ sum - last.total <= 50
           /\ (cart[last.sess] = <<>> => last.total = 0)
           /\ last.count = Len(cart[last.sess])

\* a total over two items whose sum is not a whole number of cents
C2_Witness ==
  /\ last.op = "total" /\ Len(cart[last.sess]) >= 2
  /\ last.total # SumAt(cart[last.sess], DOMAIN cart[last.sess])
  /\ last.total > 0

\* C3: no two items of a session's cart share an id, and the id an add
\* assigns was not assigned before and is in no cart.
C3_UniqueIds ==
  [][/\ \A s \in Sessions : \A i, j \in 1..Len(cart'[s]) :
          i # j => cart'[s][i].id # cart'[s][j].id
     /\ last'.op = "add"
          => /\ issued[last'.arg] = NoSession
             /\ \A s \in Sessions : last'.arg \notin ItemIds(cart[s])]_vars

\* an add into a cart that already holds an item, in a session one of whose
\* earlier ids is gone from the cart
C3_Witness ==
  /\ last.op = "add" /\ last.success /\ Len(cart[last.sess]) >= 2
  /\ \E i \in Ids : issued[i] = last.sess /\ i \notin ItemIds(cart[last.sess])

\* C4: every add request reports success and makes the cart one item longer.
C4_AddAlwaysSucceeds ==
  last.op = "add"
    => last.success /\ Len(cart[last.sess]) = last.before + 1

\* C5: clear empties the session's cart, and the list or total request that
\* follows it in the session returns count 0, no items and total 0.
C5_ClearEmpties ==
  [][/\ last'.op = "clear" => cart'[last'.sess] = <<>>
     /\ (last.op = "clear" /\ last'.sess = last.sess
           /\ last'.op \in {"items", "total"})
          => last'.count = 0 /\ last'.total = 0 /\ last'.items = <<>>]_vars

\* a clear of a cart that held two items or more
C5_Witness ==
  /\ last.op = "clear" /\ last.success
  /\ last.before >= 2 /\ cart[last.sess] = <<>>

\* C6: list returns the items in the order of the cart, add places the new
\* item last and keeps the others in place, and remove(id) deletes exactly
\* the item with that id and keeps the others, unchanged, in their relative
\* order.
C6_InsertionOrder ==
  [][LET old == cart[last'.sess]
         new == cart'[last'.sess]
     IN  /\ (last'.op = "add" /\ last'.success)
              => /\ Len(new) = Len(old) + 1
                 /\ SubSeq(new, 1, Len(old)) = old
                 /\ new[Len(new)].id = last'.arg
         /\ last'.op = "remove"
              => LET at == { k \in 1..Len(old) : old[k].id = last'.arg }
                 IN  /\ Cardinality(at) <= 1
                     /\ Len(new) = Len(old) - Cardinality(at)
                     /\ \A i \in 1..Len(new) :
                          new[i] = IF \E k \in at : k <= i THEN old[i + 1]
                                   ELSE old[i]
         /\ last'.op = "items"
              => last'.items = old /\ new = old]_vars

\* the removal of the middle item of a cart of three
C6_Witness ==
  /\ last.op = "remove" /\ last.before = 3 /\ Len(cart[last.sess]) = 2
  /\ cart[last.sess][1].id < last.arg /\ last.arg < cart[last.sess][2].id

\* C7: a request of one session leaves the cart of every other session
\* unchanged, every item of a session's cart was added by that session, and
\* list, total and export answer from the session's own cart only.
C7_SessionIsolation ==
  [][/\ \A t \in Sessions : t # last'.sess => cart'[t] = cart[t]
     /\ \A t \in Sessions : \A i \in 1..Len(cart'[t]) :
          issued'[cart'[t][i].id] = t
     /\ last'.op = "items" => last'.items = cart'[last'.sess]
     /\ last'.op = "total" => last'.count = Len(cart'[last'.sess])
     /\ (last'.op = "export" /\ last'.success)
          => /\ last'.csv.total_resources = Len(cart'[last'.sess])
             /\ Len(last'.csv.item_rows) = Len(cart'[last'.sess])
             /\ \A k \in 1..Len(last'.csv.item_rows) :
                  LET row == last'.csv.item_rows[k]
                      item == cart'[last'.sess][k]
                  IN  /\ row.service = item.service
                      /\ row.resource = item.resourceType
                      /\ row.region = item.region
                      /\ row.qty = item.quantity
                      /\ row.hourly = item.hourlyCost]_vars

\* an export in a session while the other session holds a cart of another
\* length
C7_Witness ==
  /\ last.op = "export" /\ last.success
  /\ last.csv.total_resources = Len(cart[last.sess])
  /\ \E t \in Sessions :
       /\ t # last.sess /\ cart[t] # <<>> /\ cart[last.sess] # <<>>
       /\ Len(cart[t]) # Len(cart[last.sess])

\* C28: an add that answers success: false (a cost that float() cannot
\* convert) leaves every cart as it was, item for item: nothing is
\* appended, and the id drawn for the item is in no cart.
C28_FailedAddLeavesCart ==
  [][(last'.op = "add" /\ ~last'.success)
       => /\ cart' = cart
          /\ Len(cart'[last'.sess]) = last'.before
          /\ \A s \in Sessions : last'.arg \notin ItemIds(cart'[s])]_vars

\* a failed add on a cart of two items, which are still the cart
C28_Witness ==
  /\ last.op = "add" /\ ~last.success /\ last.status = 500
  /\ last.before = 2 /\ Len(cart[last.sess]) = 2
  /\ issued[last.arg] = last.sess
  /\ last.arg \notin ItemIds(cart[last.sess])

\* C20: the cartCount a successful add or a remove returns is the number
\* of items in the session's cart right after it: one more than before for
\* an add, so 1 for the add that follows a clear.
C20_CartCountIsLength ==
  /\ (last.op \in {"add", "remove"} /\ last.success)
       => last.cartCount = Len(cart[last.sess])
  /\ (last.op = "add" /\ last.success)
       => last.cartCount = last.before + 1
  /\ last.op = "remove" => last.success /\ last.cartCount <= last.before

\* an add into a cart that was emptied: the session drew an id before
C20_Witness ==
  /\ last.op = "add" /\ last.success /\ last.before = 0
  /\ last.cartCount = 1 /\ Len(cart[last.sess]) = 1
  /\ \E i \in Ids : i # last.arg /\ issued[i] = last.sess

\* ================================================================ pricing
PricingOps == {"ec2", "rds", "s3", "vpc", "alb", "route53"}

\* the Price Table holds an entry for the selectors of req under region
InTable(op, region, req) ==
  LET T == FALLBACK_PRICING
  IN  CASE op = "ec2" ->
             /\ region \in DOMAIN T.EC2
             /\ req.resource \in DOMAIN T.EC2[region]
             /\ req.attr \in DOMAIN T.EC2[region][req.resource]
        [] op = "rds" ->
             /\ region \in DOMAIN T.RDS
             /\ req.resource \in DOMAIN T.RDS[region]
             /\ req.attr \in DOMAIN T.RDS[region][req.resource]
             /\ req.option \in DOMAIN T.RDS[region][req.resource][req.attr]
        [] op = "s3" ->
             region \in DOMAIN T.S3 /\ req.resource \in DOMAIN T.S3[region]
        [] op = "vpc" ->
             region \in DOMAIN T.VPC /\ req.resource \in DOMAIN T.VPC[region]
        [] op = "alb" -> region \in DOMAIN T.ALB
        [] op = "route53" -> req.resource \in DOMAIN T.Route53
        [] OTHER -> FALSE

\* the entry of the Price Table for the selectors of req under region
TablePrice(op, region, req) ==
  LET T == FALLBACK_PRICING
  IN  CASE op = "ec2" -> T.EC2[region][req.resource][req.attr]
        [] op = "rds" -> T.RDS[region][req.resource][req.attr][req.option]
        [] op = "s3" -> T.S3[region][req.resource]
        [] op = "vpc" -> T.VPC[region][req.resource]
        [] op = "alb" -> T.ALB[region]
        [] op = "route53" -> T.Route53[req.resource]

\* the quantity a request asks for (1 when the body has none)
RequestedQuantity(req) == IF req.n.t = "absent" THEN 1 ELSE req.n.v

\* C8: in static-table mode, for EC2, RDS, S3, VPC and ALB, when the table has no entry for the
\* requested region and resource key but has one for the same key under
\* US East (N. Virginia), the price returned is that US East price.
C8_DefaultRegionFallback ==
  (/\ last.op \in {"ec2", "rds", "s3", "vpc", "alb"} /\ last.success
   /\ last.backend = BulkClient
   /\ ~InTable(last.op, last.req.region, last.req)
   /\ InTable(last.op, US_EAST, last.req))
    => /\ Len(last.data) = 1
       /\ last.data[1].amount = TablePrice(last.op, US_EAST, last.req)

\* C9: for each of the six services, selectors that the table holds neither
\* under the requested region nor under US East (N. Virginia) resolve to a
\* record with unit price 0 and, where it carries one, monthly cost 0.
C9_UnknownSelectorIsZero ==
  (/\ last.op \in PricingOps /\ last.success
   /\ last.backend = BulkClient
   /\ ~InTable(last.op, last.req.region, last.req)
   /\ ~InTable(last.op, US_EAST, last.req))
    => /\ Len(last.data) = 1
       /\ last.data[1].amount = 0
       /\ last.data[1].has_monthly => last.data[1].monthly_cost = 0

RequestedSize(req) == IF req.n.t = "absent" THEN 0 ELSE req.n.v

\* the body of the request served last carries a number, or nothing, where
\* the handler reads its size or quantity
NumericInput == last.req.n.t \in {"num", "numstr", "absent"}

\* C12: an S3 query with storage size g returns, in every price entry, the
\* monthly cost unitPrice * g and records g as the size; with a size of 0
\* (or none) the request fails only when the call of the API fails, and the
\* monthly cost is 0.
C12_S3MonthlyCost ==
  /\ (last.op = "s3" /\ last.success)
       => /\ NumericInput
          /\ \A k \in 1..Len(last.data) :
               /\ last.data[k].storageGB = RequestedSize(last.req)
               /\ last.data[k].has_price
                    => /\ last.data[k].has_monthly
                       /\ last.data[k].monthly_cost
                            = last.data[k].amount * RequestedSize(last.req)
                       /\ RequestedSize(last.req) = 0
                            => last.data[k].monthly_cost = 0
  /\ (last.op = "s3" /\ pricing_client # NoClient /\ last.req # NoReq
      /\ NumericInput /\ ~last.success)
       => last.calls = 1 /\ last.backend = ApiClient

\* 100 GB priced by the API at 0.012 per GB: 1.20 a month
C12_Witness ==
  /\ last.op = "s3" /\ last.success /\ last.backend = ApiClient
  /\ RequestedSize(last.req) = 100
  /\ Len(last.data) >= 1 /\ last.data[1].has_price
  /\ last.data[1].amount = 120 /\ last.data[1].monthly_cost = 12000

\* C13: a Route53 query (hosted zone or query block) with quantity q
\* returns, in every price entry, the monthly cost unitPrice * q, without
\* the factor of 730 hours, and records q as the quantity.
C13_Route53MonthlyCost ==
  (last.op = "route53" /\ last.success)
    => /\ NumericInput
       /\ \A k \in 1..Len(last.data) :
            /\ last.data[k].has_quantity
            /\ last.data[k].quantity = RequestedQuantity(last.req)
            /\ last.data[k].has_price
                 => /\ last.data[k].has_monthly
                    /\ last.data[k].monthly_cost
                         = last.data[k].amount * RequestedQuantity(last.req)

\* two hosted zones from the static table: 0.50 * 2 = 1.00
C13_Witness ==
  /\ last.op = "route53" /\ last.success /\ last.backend = BulkClient
  /\ last.req.resource = "HostedZone" /\ RequestedQuantity(last.req) = 2
  /\ last.data[1].amount = 5000 /\ last.data[1].monthly_cost = 10000

\* C14: a numeric input that is not a number, is null or is absent never
\* fails a request: an S3, VPC, ALB or Route53 query reads it as 0 and
\* answers (unless the call of the API fails), and a cart add succeeds.
C14_BadNumbersBecomeZero ==
  /\ (/\ last.op \in {"s3", "vpc", "alb", "route53"}
      /\ pricing_client # NoClient
      /\ last.req.n.t \in {"str", "null", "absent"})
       => /\ last.success \/ last.calls = 1
          /\ \A k \in 1..Len(last.data) :
               /\ last.data[k].quantity = 0 /\ last.data[k].storageGB = 0
               /\ last.data[k].monthly_cost = 0
  /\ last.op = "add" => last.success

\* C17: when the constructor of the pricing client failed, the six pricing
\* queries, the connection test and the instance listing all answer with
\* the not-initialized error envelope and without data, and the cart
\* requests are served as usual.
C17_UniformNotInitialized ==
  pricing_client = NoClient
    => /\ last.op \in PricingOps \cup {"test", "instances"}
            => /\ ~last.success
               /\ last.error \in {"AWS Pricing client not initialized",
                                  "Pricing client not initialized"}
               /\ last.data = <<>> /\ last.instances = <<>>
               /\ last.calls = 0
       /\ last.op \in {"index", "items", "remove", "clear", "total"}
            => last.success

\* the requests that use the pricing client
ClientOps == PricingOps \cup {"test", "instances"}

\* C18: no request changes the pricing client or its mode, and every
\* request that reaches a backend is answered by the backend of that mode:
\* from the static table without a call of the API in static-table mode, by
\* one call of the API in live-API mode.
C18_ModeIsFixed ==
  [][/\ pricing_client' = pricing_client
     /\ last'.op \in ClientOps
          => /\ last'.backend \in {"", pricing_client}
             /\ pricing_client = BulkClient => last'.calls = 0
             /\ (last'.op \in PricingOps /\ last'.success)
                  => last'.backend = pricing_client
             /\ (pricing_client = ApiClient /\ last'.backend # "")
                  => last'.calls = 1
             /\ pricing_client = NoClient => last'.calls = 0]_vars

\* a query of a process in live-API mode that failed in the API
C18_Witness ==
  /\ pricing_client = ApiClient
  /\ last.op = "vpc" /\ ~last.success /\ last.raised = "ReadTimeoutError"
  /\ last.backend = ApiClient

\* C19: in live-API mode a pricing query makes one call of the API; when the
\* API returns a list the query succeeds with one record per product and
\* the count of the records (none and 0 for an empty list), and when the
\* call raises a client or transport error the query answers the error
\* envelope without data and without a second call.
C19_EmptyIsNotFailure ==
  (last.op \in PricingOps /\ last.backend = ApiClient)
    => /\ pricing_client = ApiClient
       /\ last.calls = 1
       /\ last.raised = ""
            => /\ last.success /\ last.status = 200 /\ last.error = ""
               /\ Len(last.data) = last.returned
               /\ last.count = last.returned
       /\ last.raised # ""
            => /\ ~last.success /\ last.status = 500 /\ last.error # ""
               /\ last.data = <<>>

\* a query the API answered with an empty list
C19_Witness ==
  /\ last.op \in PricingOps /\ last.backend = ApiClient
  /\ last.raised = "" /\ last.returned = 0
  /\ last.success /\ last.data = <<>> /\ last.count = 0

\* ==================================================================== CSV
\* the values of field among the items
Distinct(items, field) == { items[i][field] : i \in 1..Len(items) }

\* C15: the export of a cart of N items is a document with N rows in the
\* itemized section and a header count of N, and its service section has
\* one row for each distinct service value of the cart.
C15_RowCounts ==
  last.op = "export"
    => /\ last.success /\ last.csv.ok
       /\ Len(last.csv.item_rows) = Len(cart[last.sess])
       /\ last.csv.total_resources = Len(cart[last.sess])
       /\ Len(last.csv.service_rows)
            = Cardinality(Distinct(cart[last.sess], "service"))

\* C16 as claimed: a second render of the items and total an export has
\* rendered gives the same document, whenever it is made.
C16_SameInputsSameText ==
  (last.op = "export" /\ last.success)
    => \A now \in Times :
         generate_csv_report(cart[last.sess], SumMonthly(cart[last.sess]), now)
           = last.csv

\* C16 amended: a second render of the items and total an export has
\* rendered gives the same document except for its 'Generated' line, which
\* carries the time of the render; and whether a render fails does not
\* depend on the time.
C16_SameInputsSameTextButTime ==
  /\ (last.op = "export" /\ last.success)
       => \A now \in Times :
            LET again == generate_csv_report(cart[last.sess],
                                             SumMonthly(cart[last.sess]), now)
            IN  /\ again.ok /\ again.generated = now
                /\ [again EXCEPT !.generated = last.csv.generated] = last.csv
  /\ (last.op = "export" /\ ~last.success)
       => \A now \in Times :
            ~generate_csv_report(cart[last.sess],
                                 SumMonthly(cart[last.sess]), now).ok

\* an export of two items of different services, at the later time
C16_Witness ==
  /\ last.op = "export" /\ last.success
  /\ last.csv.generated = "2026-01-01 12:00:01"
  /\ Len(last.csv.item_rows) >= 2 /\ Len(last.csv.service_rows) >= 2
  /\ last.csv.item_rows[1] # last.csv.item_rows[2]

\* ====================================================== instance catalog
\* the resource keys the Price Table holds for EC2 under region
TableKeys(region) ==
  IF region \in DOMAIN FALLBACK_PRICING.EC2
  THEN DOMAIN FALLBACK_PRICING.EC2[region] ELSE {}

\* C22: in static-table mode the listing for a region succeeds and returns
\* exactly the resource keys the Price Table holds for that region, each
\* once, in ascending order, with count the number of keys; for a region
\* the table does not hold the list is empty and the count 0.
C22_CatalogIsSortedKeys ==
  (last.op = "instances" /\ pricing_client = BulkClient)
    => LET keys == TableKeys(last.req.region)
           q == last.instances
       IN  /\ last.success /\ last.status = 200
           /\ { q[i] : i \in 1..Len(q) } = keys
           /\ Len(q) = Cardinality(keys)
           /\ \A i, j \in 1..Len(q) : i < j => StrRank[q[i]] < StrRank[q[j]]
           /\ last.count = Cardinality(keys)
           /\ (last.req.region \notin DOMAIN FALLBACK_PRICING.EC2
                 => q = <<>> /\ last.count = 0)

\* a listing for a region whose keys the file lists only in part: the
\* three instance types come back in order
C22_Witness ==
  /\ last.op = "instances" /\ pricing_client = BulkClient /\ last.success
  /\ last.req.region = "EU (Ireland)"
  /\ last.instances = << "m5.large", "t2.micro", "t2.nano" >>
  /\ last.count = 3

\* ============================================================ price table
\* C23: the Price Table is loaded once, when the client is made, and no
\* pricing query or listing changes it: after every request each entry has
\* the value it was loaded with, and a static-table query whose selectors
\* have an entry returns that entry as its unit price, whatever queries and
\* normalization steps went before.
C23_TableIsImmutable ==
  /\ pricing_client = BulkClient => pricing_data = FALLBACK_PRICING
  /\ pricing_client # BulkClient => pricing_data = NoTable
  /\ (/\ last.op \in PricingOps /\ last.success
      /\ last.backend = BulkClient
      /\ InTable(last.op, last.req.region, last.req))
       => /\ Len(last.data) = 1
          /\ last.data[1].amount = TablePrice(last.op, last.req.region, last.req)

\* the normalization step has rewritten monthly_cost and quantity on the
\* record of two NAT gateways, and the table still holds the hourly price
C23_Witness ==
  /\ last.op = "vpc" /\ last.success /\ last.backend = BulkClient
  /\ last.req.resource = "NatGateway" /\ last.req.region = US_EAST
  /\ last.data[1].has_quantity /\ last.data[1].quantity = 2
  /\ last.data[1].monthly_cost = 450 * 730 * 2
  /\ pricing_data.VPC[US_EAST]["NatGateway"] = 450

\* ================================================================ tenancy
\* C30: in static-table mode two EC2 queries for the same instance type,
\* region and operating system return the same records, and so the same
\* unit price, whatever tenancy (Shared, Dedicated, Host) each one names;
\* where the table has an entry for the three selectors the price is that
\* entry.
C30_TenancyIsIgnored ==
  [][(/\ last.op = "ec2" /\ last.success /\ last.backend = BulkClient
      /\ last'.op = "ec2" /\ last'.success /\ last'.backend = BulkClient
      /\ last'.req.resource = last.req.resource
      /\ last'.req.region = last.req.region
      /\ last'.req.attr = last.req.attr)
       => /\ Len(last'.data) = 1 /\ Len(last.data) = 1
          /\ last'.data[1].amount = last.data[1].amount
          /\ last'.data = last.data
          /\ InTable("ec2", last'.req.region, last'.req)
               => last'.data[1].amount
                    = TablePrice("ec2", last'.req.region, last'.req)]_vars

\* a Host query for m5.large on Windows in EU (Ireland), priced 0.203 as
\* the table has it
C30_Witness ==
  /\ last.op = "ec2" /\ last.success /\ last.backend = BulkClient
  /\ last.req.option = "Host"
  /\ last.req.resource = "m5.large" /\ last.req.region = "EU (Ireland)"
  /\ last.req.attr = "Windows"
  /\ last.data[1].amount = 2030

\* ================================================================== export
\* text in csv_content, for the texts a reader looks up: a text is in the
\* document when it is one of its fixed texts; of the texts looked up here
\* none is a proper part of a label or of a field of an item of the model
Contains(csv, text) == csv.ok /\ text \in Labels

\* C29: an export answers with the CSV document, never with the error
\* envelope, whatever items the successful adds put in the cart.
C29_ExportAlwaysSucceeds ==
  last.op = "export"
    => last.success /\ last.status = 200 /\ last.csv.ok

\* C25: the export of a cart that is not empty is an attachment of type
\* text/csv whose content has the texts 'AWS Cost Estimate Report',
\* 'Service' and 'Total Monthly Cost'.
C25_AttachmentWithTexts ==
  (last.op = "export" /\ cart[last.sess] # <<>>)
    => /\ last.mimetype = "text/csv"
       /\ last.disposition = "attachment"
       /\ Contains(last.csv, "AWS Cost Estimate Report")
       /\ Contains(last.csv, "Service")
       /\ Contains(last.csv, "Total Monthly Cost")

\* C26: in the report of any cart the rows of the service breakdown and of
\* the region breakdown come in ascending order of their key, one row for
\* each distinct key of the items.
C26_GroupRowsSorted ==
  last.op = "export"
    => /\ last.csv.ok
       /\ \A field \in {"service", "region"} :
            LET rows == IF field = "service" THEN last.csv.service_rows
                        ELSE last.csv.region_rows
            IN  /\ Len(rows) = Cardinality(GroupKeys(cart[last.sess], field))
                /\ { rows[k].key : k \in 1..Len(rows) }
                     = GroupKeys(cart[last.sess], field)
                /\ \A i, j \in 1..Len(rows) :
                     i < j => StrRank[rows[i].key] < StrRank[rows[j].key]

\* the sum of field f over the rows of a breakdown
RECURSIVE SumRows(_, _)
SumRows(rows, f) ==
  IF rows = <<>> THEN 0
  ELSE rows[1][f] + SumRows(Tail(rows), f)

\* C27: in the report of any cart, for each of the two breakdowns the
\* resource counts add up to the number of items and the monthly costs add
\* up to the sum of the items' monthlyCost, and every annual figure (item
\* row, group row, summary) is 12 times the monthly figure beside it.
C27_AggregatesConsistent ==
  last.op = "export"
    => LET items == cart[last.sess]
           csv == last.csv
       IN  /\ csv.ok
           /\ \A rows \in {csv.service_rows, csv.region_rows} :
                /\ SumRows(rows, "count") = Len(items)
                /\ SumRows(rows, "monthly") = SumAt(items, DOMAIN items)
                /\ \A k \in 1..Len(rows) : rows[k].annual = 12 * rows[k].monthly
           /\ \A k \in 1..Len(csv.item_rows) :
                csv.item_rows[k].annual = 12 * csv.item_rows[k].monthly
           /\ csv.annual = 12 * csv.monthly

\* ------------------------------------------------- requests that overlap
\* session is Flask's own session object (app.py installs no server-side
\* store): the cart travels in the session cookie.  A request carries the
\* cookie the browser holds when it is sent, the handler works on the cart
\* of that cookie, and the cookie of the response replaces the browser's.
\* cart[s] is the cart in the cookie the browser of session s holds.  The
\* handlers above are a request and its response with no other request of
\* the session in between; here two threads serve requests that overlap.
\* A request in service keeps the first request of its session that was
\* answered meanwhile (other, with same_cart when that one worked on the
\* same cookie and alone when no answer came during its own service) and
\* counts them up to two.
NoRequest == [op |-> "none"]

\* the requests that change the cart; the add is one whose costs convert
MutatingRequests ==
  { [op |-> "add", data |-> data, item_id |-> InvalidId] : data \in AppAddRequests }
  \cup { [op |-> "remove", data |-> <<>>, item_id |-> i] : i \in Ids }
  \cup { [op |-> "clear", data |-> <<>>, item_id |-> InvalidId] }

\* what the handler of request r, with the token id for an add, makes of
\* the cart items
Handled(r, id, items) ==
  CASE r.op = "add" -> append(items, cart_item(id, r.data))
    [] r.op = "remove" -> without(items, r.item_id)
    [] r.op = "clear" -> cleared(items)

\* thread t takes a request of session s: the session is opened from the
\* cookie of the request
receive(t, s, r) ==
  /\ in_flight[t] = Idle
  /\ in_flight' = [in_flight EXCEPT ![t] =
                     [op |-> r.op, data |-> r.data, item_id |-> r.item_id,
                      sess |-> s, session_cart |-> cart[s],
                      other |-> NoRequest, answered |-> 0]]
  /\ UNCHANGED <<cart, has_cart, issued, last, pricing_client, pricing_data>>

\* thread t runs the handler on the cart of its request and answers:
\* session.modified = True makes the response set the cookie
respond(t, id) ==
  /\ in_flight[t] # Idle
  /\ LET r == in_flight[t]
         s == r.sess
         served(u) == [op |-> r.op, data |-> r.data, item_id |-> r.item_id,
                       id |-> id,
                       same_cart |-> r.session_cart = in_flight[u].session_cart,
                       alone |-> r.answered = 0]
     IN  /\ IF r.op = "add" THEN id \in uuid4 ELSE id = InvalidId
         /\ issued' = IF r.op = "add" THEN [issued EXCEPT ![id] = s] ELSE issued
         /\ cart' = [cart EXCEPT ![s] = Handled(r, id, r.session_cart)]
         /\ has_cart' = [has_cart EXCEPT ![s] = TRUE]
         /\ last' = [Response(r.op, s) EXCEPT
                       !.arg = IF r.op = "remove" THEN r.item_id ELSE id,
                       !.before = Len(r.session_cart),
                       !.cartCount = IF r.op = "clear" THEN 0
                                     ELSE cartCount(cart'[s])]
         /\ in_flight' =
              [u \in Threads |->
                 IF u = t THEN Idle
                 ELSE IF in_flight[u] # Idle /\ in_flight[u].sess = s
                 THEN [in_flight[u] EXCEPT
                         !.other = IF @ = NoRequest THEN served(u) ELSE @,
                         !.answered = IF @ < 2 THEN @ + 1 ELSE @]
                 ELSE in_flight[u]]
  /\ UNCHANGED <<pricing_client, pricing_data>>

\* the browser whose requests overlap
OverlapSessions == {"s1"}

NextOverlap ==
  \/ \E t \in Threads, s \in OverlapSessions, r \in MutatingRequests : receive(t, s, r)
  \/ \E t \in Threads, id \in Ids \cup {InvalidId} : respond(t, id)

OverlapSpec == InitApi /\ [][NextOverlap]_vars

\* ============================================================ frame effect
\* the requests that only read
ReadOnlyOps ==
  PricingOps \cup {"test", "instances", "items", "total", "export"}

\* C21: the connectivity probe, the six pricing queries, the instance
\* listing, cart list, cart total and CSV export leave the cart of every
\* session as it was, item for item and in the same order, whether they
\* succeed or fail.
C21_ReadsLeaveCarts ==
  [][last'.op \in ReadOnlyOps
       => /\ cart' = cart
          /\ \A s \in Sessions :
               /\ Len(cart'[s]) = Len(cart[s])
               /\ \A k \in 1..Len(cart[s]) : cart'[s][k] = cart[s][k]]_vars

\* a pricing query served while its session holds two items, the later
\* token first, and the other session holds one
C21_Witness ==
  /\ last.op \in PricingOps /\ last.success
  /\ Len(cart[last.sess]) = 2
  /\ cart[last.sess][1].id > cart[last.sess][2].id
  /\ \E t \in Sessions : t # last.sess /\ Len(cart[t]) = 1

\* ============================================================ concurrency
\* C24: when two mutating requests of a session overlap (both were sent
\* with the same cart, and no third request was answered while either was
\* served), the cart after the second answer is what the two handlers give
\* when run one after the other, in one order or the other, on the cart
\* both were sent with: no update is lost.
C24_OverlapIsSerial ==
  [][\A t \in Threads :
       (/\ in_flight[t] # Idle /\ in_flight'[t] = Idle
        /\ in_flight[t].answered = 1
        /\ in_flight[t].other.same_cart /\ in_flight[t].other.alone)
         => LET r == in_flight[t]
                o == r.other
                id == last'.arg
                base == r.session_cart
            IN  cart'[r.sess]
                  \in { Handled(r, id, Handled(o, o.id, base)),
                        Handled(o, o.id, Handled(r, id, base)) }]_vars

====
